---- MODULE Spec2Model ----
(***************************************************************************)
(* The roller-coaster track store (useRollerCoaster.tsx): the zustand      *)
(* store's fields, the module-level id counter and one action per store    *)
(* operation.                                                              *)
(*                                                                         *)
(* Numbers.  Coordinates are JavaScript doubles in the source; here they   *)
(* are fixed-point integers counted in 1/Unit of a length unit, so the     *)
(* point (10, 0, 0) is [x |-> 10000, y |-> 0, z |-> 0].  Unit vectors use  *)
(* the same resolution (1.0 is Unit).  Ids are the strings the source      *)
(* builds, "point-1", "point-2", ...; null is the string "null", which no  *)
(* id equals.  An optional vector (cameraTarget) is << >> for null and     *)
(* <<v>> for the vector v.                                                 *)
(***************************************************************************)
EXTENDS Integers, Sequences, FiniteSets, TLC

VARIABLES
    mode,              \* "build" | "ride" | "preview"
    trackPoints,       \* sequence of [id, position, tilt]
    selectedPointId,   \* an id or NULL
    rideProgress,
    isRiding,
    rideSpeed,
    isDraggingPoint,
    isAddingPoints,
    isLooped,
    hasChainLift,
    showWoodSupports,
    isNightMode,
    cameraTarget,      \* << >> or <<vector>>
    pointCounter,      \* the module-level `let pointCounter`
    lastCall,          \* observer: the operation called last, with its arguments
    opCount,           \* observer: how many operations were called so far
    assignedIds,       \* observer: every id given to a point created so far
    notified,          \* observer: the store states the subscribers were told of
                       \* during the last operation, one for each set() call
    heldVec,           \* caller: the value of the Vector3 object the caller keeps
    sharesHeld         \* the ids of the points whose position is that very object

\* The fields of the zustand store.
storeVars == <<mode, trackPoints, selectedPointId, rideProgress, isRiding,
               rideSpeed, isDraggingPoint, isAddingPoints, isLooped,
               hasChainLift, showWoodSupports, isNightMode, cameraTarget>>

\* The store's fields other than trackPoints.
otherVars == <<mode, selectedPointId, rideProgress, isRiding,
               rideSpeed, isDraggingPoint, isAddingPoints, isLooped,
               hasChainLift, showWoodSupports, isNightMode, cameraTarget>>

\* The presentation and input flags and the camera target.
flagVars == <<isDraggingPoint, isAddingPoints, isLooped, hasChainLift,
              showWoodSupports, isNightMode, cameraTarget, rideSpeed>>

vars == <<mode, trackPoints, selectedPointId, rideProgress, isRiding,
          rideSpeed, isDraggingPoint, isAddingPoints, isLooped,
          hasChainLift, showWoodSupports, isNightMode, cameraTarget,
          pointCounter, lastCall, opCount, assignedIds, notified,
          heldVec, sharesHeld>>

----------------------------------------------------------------------------
\* Bounds of the exploration.

\* Operations called in one run.
MaxOps == 4

\* Fixed-point resolution of a coordinate: 1/Unit of a length unit.
Unit == 1000

----------------------------------------------------------------------------
\* Values.

NULL == "null"

CoasterMode == {"build", "ride", "preview"}

Vec(x, y, z) == [x |-> x, y |-> y, z |-> z]

\* `point-${n}`
PointId(n) == "point-" \o ToString(n)

\* A counter that is read but never advanced.
NextCounterStuck(c) == c

\* ++pointCounter
NextCounter(c) == c + 1

\* The positions the callers pass (in length units: (0,0,0), (10,0,0), (20,0,0)).
Positions == { Vec(0, 0, 0), Vec(10 * Unit, 0, 0), Vec(20 * Unit, 0, 0) }

\* The tilts the callers pass (the scalar is stored as given).
Tilts == {0, 1}

\* The ids the callers pass: every id minted so far and one that never was.
CallerIds == { PointId(n) : n \in 1..(pointCounter + 1) }

\* Progress and speed values the callers pass (stored as given).
Progresses == {0, 1}

Speeds == {1, 2}

\* A call as the observer records it: the operation, its string argument (an
\* id or a mode), its optional vector, its number and its boolean; `again`
\* says that the call before it was the same call with the same arguments.
Call(op, str, vec, num, bool) ==
    [op |-> op, str |-> str, vec |-> vec, num |-> num, bool |-> bool,
     again |-> FALSE]

----------------------------------------------------------------------------
\* Fixed-point arithmetic standing for the doubles of the source.

\* a / b rounded to the nearest integer (b > 0).
RoundDiv(a, b) == (2 * a + b) \div (2 * b)

\* The largest r in lo..hi with r * r <= n.
RECURSIVE SqrtSearch(_, _, _)
SqrtSearch(n, lo, hi) ==
    IF lo >= hi THEN lo
    ELSE LET mid == (lo + hi + 1) \div 2
         IN  IF mid * mid <= n THEN SqrtSearch(n, mid, hi)
             ELSE SqrtSearch(n, lo, mid - 1)

\* Math.sqrt, rounded to the nearest integer.
Sqrt(n) ==
    LET r == SqrtSearch(n, 0, 46340)
    IN  IF n - r * r > r THEN r + 1 ELSE r

\* THREE.Vector3.length(): the result counted in 1/Unit.
Length(v) == Sqrt(v.x * v.x + v.y * v.y + v.z * v.z)

\* THREE.Vector3.sub
Sub(a, b) == Vec(a.x - b.x, a.y - b.y, a.z - b.z)

\* THREE.Vector3.normalize(): divideScalar(length() || 1).
Normalize(v) ==
    LET len == Length(v)
    IN  IF len = 0 THEN v
        ELSE Vec(RoundDiv(v.x * Unit, len), RoundDiv(v.y * Unit, len),
                 RoundDiv(v.z * Unit, len))

\* THREE.Vector3.crossVectors(a, b), both counted in 1/Unit.
CrossVectors(a, b) ==
    Vec((a.y * b.z - a.z * b.y) \div Unit,
        (a.z * b.x - a.x * b.z) \div Unit,
        (a.x * b.y - a.y * b.x) \div Unit)

\* Math.cos(i / arcPoints * 2 * PI) for arcPoints = 8, in millionths.
Cos8(i) ==
    CASE i % 8 = 0 -> 1000000
      [] i % 8 \in {1, 7} -> 707107
      [] i % 8 \in {2, 6} -> 0
      [] i % 8 \in {3, 5} -> -707107
      [] i % 8 = 4 -> -1000000

\* Math.sin(i / arcPoints * 2 * PI) for arcPoints = 8, in millionths.
Sin8(i) ==
    CASE i % 8 \in {0, 4} -> 0
      [] i % 8 \in {1, 3} -> 707107
      [] i % 8 = 2 -> 1000000
      [] i % 8 \in {5, 7} -> -707107
      [] i % 8 = 6 -> -1000000

----------------------------------------------------------------------------
\* The track as a sequence of points.

Point(id, position, tilt) == [id |-> id, position |-> position, tilt |-> tilt]

\* The set of ids of a track.
IdSet(tp) == { tp[i].id : i \in 1..Len(tp) }

\* findIndex with a missing id clamped to the first index.
FindIndexClamped(tp, id) ==
    IF \E i \in 1..Len(tp) : tp[i].id = id
    THEN (CHOOSE i \in 1..Len(tp) : tp[i].id = id) - 1
    ELSE 0

\* Array.prototype.findIndex((p) => p.id === id): the 0-based index of the
\* first point with that id, -1 when there is none.
FindIndex(tp, id) ==
    IF \E i \in 1..Len(tp) : tp[i].id = id
    THEN (CHOOSE i \in 1..Len(tp) :
              tp[i].id = id /\ \A j \in 1..(i - 1) : tp[j].id # id) - 1
    ELSE -1

\* Array.prototype.slice(from, to) with 0-based from (inclusive), to (exclusive).
Slice(tp, from, to) == SubSeq(tp, from + 1, to)

\* The new point put in front of the others.
PrependPoint(tp, id, position) == <<Point(id, position, 0)>> \o tp

\* [...state.trackPoints, { id, position: position.clone(), tilt: 0 }]
AppendPoint(tp, id, position) == Append(tp, Point(id, position, 0))

\* trackPoints.map(point => point.id === id ? {...point, position} : point)
SetPosition(tp, id, position) ==
    [i \in 1..Len(tp) |->
        IF tp[i].id = id THEN [tp[i] EXCEPT !.position = position] ELSE tp[i]]

\* trackPoints.map(point => point.id === id ? {...point, tilt} : point)
SetTilt(tp, id, tilt) ==
    [i \in 1..Len(tp) |->
        IF tp[i].id = id THEN [tp[i] EXCEPT !.tilt = tilt] ELSE tp[i]]

\* Removal by splice(findIndex(...), 1): an id that is not found gives index
\* -1, and splice(-1, 1) removes the last point.
RemovePointSplice(tp, id) ==
    IF \E i \in 1..Len(tp) : tp[i].id = id
    THEN SelectSeq(tp, LAMBDA p : p.id # id)
    ELSE SubSeq(tp, 1, Len(tp) - 1)

\* filter with the test inverted: only the matching point is kept.
RemovePointInverted(tp, id) == SelectSeq(tp, LAMBDA p : p.id = id)

\* trackPoints.filter(point => point.id !== id)
RemovePoint(tp, id) == SelectSeq(tp, LAMBDA p : p.id # id)

\* The caller's object stored as it is: the point shares it.
SharedWithoutClone(shared, id) == shared \cup {id}

\* position.clone(): the position stored at the point id is a new object, so
\* the point does not share the caller's object.
SharedAfterStore(shared, id) == shared \ {id}

\* The selection kept whatever was removed.
SelectionKept(sel, id) == sel

\* state.selectedPointId === id ? null : state.selectedPointId
SelectionAfterRemove(sel, id) == IF sel = id THEN NULL ELSE sel

----------------------------------------------------------------------------
\* The loop generator (the body of createLoopAtPoint).

loopRadius == 8

lateralOffset == loopRadius + 2

arcPoints == 8

\* The loop bound taken inclusive: `i <= arcPoints`.
LoopCountInclusive == arcPoints

\* How often the body of `for (let i = 1; i < arcPoints; i++)` runs.
LoopCount == arcPoints - 1

\* The guard of createLoopAtPoint, on the 0-based index findIndex returned:
\* the loop is built unless pointIndex === -1 or pointIndex >= length - 1.
LoopAccepted(tp, pointIndex) ==
    ~(pointIndex = -1 \/ pointIndex >= Len(tp) - 1)

\* The forward direction without `forward.y = 0`.
ForwardKeepsHeight(tp, k, roundedBelow) ==
    IF k > 0
    THEN LET d == Sub(tp[k + 1].position, tp[k].position)
             sq == d.x * d.x + d.y * d.y + d.z * d.z
             limit == (Unit \div 10) * (Unit \div 10)
             short == sq < limit \/ (sq = limit /\ roundedBelow)
         IN  Normalize(IF short THEN Vec(Unit, 0, 0) ELSE d)
    ELSE Vec(Unit, 0, 0)

\* The forward direction at the 0-based index k: (1, 0, 0) for the first
\* point; otherwise the horizontal vector from the preceding point, replaced
\* by (1, 0, 0) when its length is below 0.1, and normalised.  length() < 0.1
\* is decided on the squares.  The code computes the length in doubles: for
\* coordinates that are exactly 0.1 apart in decimals the computed length
\* falls below 0.1 or not, depending on the rounding of the doubles
\* (10 - 10.1 gives 0.09999999999999964, 0.1 - 0 gives 0.1).  roundedBelow is
\* the outcome of the test in that case; it has no effect in any other.
Forward(tp, k, roundedBelow) ==
    IF k > 0
    THEN LET d == Sub(tp[k + 1].position, tp[k].position)
             h == Vec(d.x, 0, d.z)
             sq == h.x * h.x + h.z * h.z
             limit == (Unit \div 10) * (Unit \div 10)
             short == sq < limit \/ (sq = limit /\ roundedBelow)
         IN  Normalize(IF short THEN Vec(Unit, 0, 0) ELSE h)
    ELSE Vec(Unit, 0, 0)

\* left = up x forward, normalised.
Left(forward) == Normalize(CrossVectors(Vec(0, Unit, 0), forward))

\* A point moved by sign * lateralOffset along left; y is kept.
ShiftPoint(p, left, sign) ==
    [p EXCEPT !.position =
        Vec(p.position.x + sign * left.x * lateralOffset,
            p.position.y,
            p.position.z + sign * left.z * lateralOffset)]

\* Only the target point is shifted, the points before it stay.
IncomingPointsTargetOnly(tp, k, left) ==
    LET part == Slice(tp, 0, k + 1)
    IN  [i \in 1..Len(part) |->
            IF i = Len(part) THEN ShiftPoint(part[i], left, 1) ELSE part[i]]

\* slice(0, pointIndex + 1).map(shift by +lateralOffset)
IncomingPoints(tp, k, left) ==
    LET part == Slice(tp, 0, k + 1)
    IN  [i \in 1..Len(part) |-> ShiftPoint(part[i], left, 1)]

\* slice(pointIndex + 1).map(shift by -lateralOffset)
OutgoingPoints(tp, k, left) ==
    LET part == Slice(tp, k + 1, Len(tp))
    IN  [i \in 1..Len(part) |-> ShiftPoint(part[i], left, -1)]

\* The centre put above the entry anchor instead of the midpoint.
LoopCenterAtEntry(entryPos, exitPos) ==
    Vec(entryPos.x, entryPos.y + loopRadius * Unit, entryPos.z)

\* The centre of the loop.
LoopCenter(entryPos, exitPos) ==
    Vec(RoundDiv(entryPos.x + exitPos.x, 2),
        entryPos.y + loopRadius * Unit,
        RoundDiv(entryPos.z + exitPos.z, 2))

\* Math.cos(angle) * loopRadius and Math.sin(angle) * loopRadius, in 1/Unit.
LateralPos(i) == RoundDiv(Cos8(i) * loopRadius, 1000000 \div Unit)

HeightPos(i) == RoundDiv(Sin8(i) * loopRadius, 1000000 \div Unit)

\* The position of the i-th generated point.
LoopPosition(center, left, i) ==
    Vec(center.x + RoundDiv(left.x * LateralPos(i), Unit),
        center.y + HeightPos(i),
        center.z + RoundDiv(left.z * LateralPos(i), Unit))

\* The counter after n increments.
RECURSIVE CounterAfter(_, _)
CounterAfter(c, n) == IF n = 0 THEN c ELSE NextCounter(CounterAfter(c, n - 1))

\* for (let i = 1; i < arcPoints; i++) loopPoints.push({ id, position, tilt: 0 })
\* with c the counter before the loop.
LoopPoints(center, left, c) ==
    [i \in 1..LoopCount |->
        Point(PointId(CounterAfter(c, i)), LoopPosition(center, left, i), 0)]

\* [...incomingPoints, ...loopPoints, ...outgoingPoints]
LoopTrack(tp, k, c, roundedBelow) ==
    LET left     == Left(Forward(tp, k, roundedBelow))
        incoming == IncomingPoints(tp, k, left)
        outgoing == OutgoingPoints(tp, k, left)
        entryPos == incoming[Len(incoming)].position
        exitPos  == outgoing[1].position
        center   == LoopCenter(entryPos, exitPos)
    IN  incoming \o LoopPoints(center, left, c) \o outgoing

----------------------------------------------------------------------------
\* The store.

Init ==
    /\ mode = "build"
    /\ trackPoints = << >>
    /\ selectedPointId = NULL
    /\ rideProgress = 0
    /\ isRiding = FALSE
    /\ rideSpeed = 1
    /\ isDraggingPoint = FALSE
    /\ isAddingPoints = TRUE
    /\ isLooped = FALSE
    /\ hasChainLift = TRUE
    /\ showWoodSupports = FALSE
    /\ isNightMode = FALSE
    /\ cameraTarget = << >>
    /\ pointCounter = 0
    /\ lastCall = Call("create", NULL, << >>, 0, FALSE)
    /\ opCount = 0
    /\ assignedIds = {}
    /\ notified = << >>
    /\ heldVec = Vec(0, 0, 0)
    /\ sharesHeld = {}

\* The store as a subscriber sees it.
Snapshot ==
    [mode |-> mode, trackPoints |-> trackPoints,
     selectedPointId |-> selectedPointId, rideProgress |-> rideProgress,
     isRiding |-> isRiding, rideSpeed |-> rideSpeed,
     isDraggingPoint |-> isDraggingPoint, isAddingPoints |-> isAddingPoints,
     isLooped |-> isLooped, hasChainLift |-> hasChainLift,
     showWoodSupports |-> showWoodSupports, isNightMode |-> isNightMode,
     cameraTarget |-> cameraTarget]

\* Object.assign({}, state, partial): the fields of partial replace those of
\* state, the other fields stay.
Assign(state, partial) ==
    [f \in DOMAIN state |->
        IF f \in DOMAIN partial THEN partial[f] ELSE state[f]]

\* The states of the store after each of the set() calls of one operation,
\* in the order of the calls.
RECURSIVE StatesAfter(_, _)
StatesAfter(state, partials) ==
    IF Len(partials) = 0
    THEN << >>
    ELSE LET next == Assign(state, Head(partials))
         IN  <<next>> \o StatesAfter(next, Tail(partials))

\* The set() calls of one operation, each with the partial state it is given:
\* every call replaces the state by Object.assign({}, state, partial) and
\* tells the subscribers of the new state.  An operation that does not call
\* set(), or whose updater returns the state itself, makes no call here: the
\* store keeps its state and the subscribers are told nothing.
Set(partials) ==
    \E states \in {StatesAfter(Snapshot, partials)} :
    \E last \in {IF Len(states) = 0 THEN Snapshot ELSE states[Len(states)]} :
        /\ notified' = states
        /\ mode' = last.mode
        /\ trackPoints' = last.trackPoints
        /\ selectedPointId' = last.selectedPointId
        /\ rideProgress' = last.rideProgress
        /\ isRiding' = last.isRiding
        /\ rideSpeed' = last.rideSpeed
        /\ isDraggingPoint' = last.isDraggingPoint
        /\ isAddingPoints' = last.isAddingPoints
        /\ isLooped' = last.isLooped
        /\ hasChainLift' = last.hasChainLift
        /\ showWoodSupports' = last.showWoodSupports
        /\ isNightMode' = last.isNightMode
        /\ cameraTarget' = last.cameraTarget

\* The call is counted and recorded.
Recorded(c) ==
    /\ opCount < MaxOps
    /\ opCount' = opCount + 1
    /\ lastCall' = [c EXCEPT !.again = (c = [lastCall EXCEPT !.again = FALSE])]

\* An operation called with arguments the caller does not keep.
Called(c) ==
    /\ Recorded(c)
    /\ UNCHANGED <<heldVec, sharesHeld>>

setMode(m) ==
    /\ Called(Call("setMode", m, << >>, 0, FALSE))
    /\ Set(<< [mode |-> m] >>)
    /\ UNCHANGED <<pointCounter, assignedIds>>

setCameraTarget(target) ==
    /\ Called(Call("setCameraTarget", NULL, target, 0, FALSE))
    /\ Set(<< [cameraTarget |-> target] >>)
    /\ UNCHANGED <<pointCounter, assignedIds>>

setIsDraggingPoint(dragging) ==
    /\ Called(Call("setIsDraggingPoint", NULL, << >>, 0, dragging))
    /\ Set(<< [isDraggingPoint |-> dragging] >>)
    /\ UNCHANGED <<pointCounter, assignedIds>>

setIsAddingPoints(adding) ==
    /\ Called(Call("setIsAddingPoints", NULL, << >>, 0, adding))
    /\ Set(<< [isAddingPoints |-> adding] >>)
    /\ UNCHANGED <<pointCounter, assignedIds>>

setIsLooped(looped) ==
    /\ Called(Call("setIsLooped", NULL, << >>, 0, looped))
    /\ Set(<< [isLooped |-> looped] >>)
    /\ UNCHANGED <<pointCounter, assignedIds>>

setHasChainLift(hasChain) ==
    /\ Called(Call("setHasChainLift", NULL, << >>, 0, hasChain))
    /\ Set(<< [hasChainLift |-> hasChain] >>)
    /\ UNCHANGED <<pointCounter, assignedIds>>

setShowWoodSupports(show) ==
    /\ Called(Call("setShowWoodSupports", NULL, << >>, 0, show))
    /\ Set(<< [showWoodSupports |-> show] >>)
    /\ UNCHANGED <<pointCounter, assignedIds>>

setIsNightMode(night) ==
    /\ Called(Call("setIsNightMode", NULL, << >>, 0, night))
    /\ Set(<< [isNightMode |-> night] >>)
    /\ UNCHANGED <<pointCounter, assignedIds>>

\* The body of addTrackPoint.
AddTrackPointBody(position) ==
    /\ pointCounter' = NextCounter(pointCounter)
    /\ Set(<< [trackPoints |->
                  AppendPoint(trackPoints, PointId(pointCounter'), position)] >>)
    /\ assignedIds' = assignedIds \cup {PointId(pointCounter')}

addTrackPoint(position) ==
    /\ Called(Call("addTrackPoint", NULL, <<position>>, 0, FALSE))
    /\ AddTrackPointBody(position)

\* addTrackPoint called with the Vector3 object the caller keeps.
addTrackPointHeld ==
    /\ Recorded(Call("addTrackPoint", NULL, <<heldVec>>, 0, FALSE))
    /\ AddTrackPointBody(heldVec)
    /\ sharesHeld' = SharedAfterStore(sharesHeld, PointId(pointCounter'))
    /\ UNCHANGED heldVec

\* The body of updateTrackPoint.
UpdateTrackPointBody(id, position) ==
    /\ Set(<< [trackPoints |-> SetPosition(trackPoints, id, position)] >>)
    /\ UNCHANGED <<pointCounter, assignedIds>>

updateTrackPoint(id, position) ==
    /\ Called(Call("updateTrackPoint", id, <<position>>, 0, FALSE))
    /\ UpdateTrackPointBody(id, position)

\* updateTrackPoint called with the Vector3 object the caller keeps.
updateTrackPointHeld(id) ==
    /\ Recorded(Call("updateTrackPoint", id, <<heldVec>>, 0, FALSE))
    /\ UpdateTrackPointBody(id, heldVec)
    /\ sharesHeld' = IF id \in IdSet(trackPoints)
                      THEN SharedAfterStore(sharesHeld, id)
                      ELSE sharesHeld
    /\ UNCHANGED heldVec

\* The caller changes the Vector3 object it keeps (position.set(x, y, z)):
\* every stored position that is this very object changes with it.  No
\* set() is called, so the subscribers are told nothing.
callerSetsVector(v) ==
    /\ v # heldVec
    /\ heldVec' = v
    /\ trackPoints' =
          [i \in 1..Len(trackPoints) |->
              IF trackPoints[i].id \in sharesHeld
              THEN [trackPoints[i] EXCEPT !.position = v]
              ELSE trackPoints[i]]
    /\ notified' = << >>
    /\ UNCHANGED <<otherVars, pointCounter, assignedIds, lastCall, opCount,
                   sharesHeld>>

updateTrackPointTilt(id, tilt) ==
    /\ Called(Call("updateTrackPointTilt", id, << >>, tilt, FALSE))
    /\ Set(<< [trackPoints |-> SetTilt(trackPoints, id, tilt)] >>)
    /\ UNCHANGED <<pointCounter, assignedIds>>

\* removeTrackPoint in two set() calls: the track first, the selection after.
removeTrackPointTwoSets(id) ==
    /\ Called(Call("removeTrackPoint", id, << >>, 0, FALSE))
    /\ Set(<< [trackPoints |-> RemovePoint(trackPoints, id)],
              [selectedPointId |-> SelectionAfterRemove(selectedPointId, id)] >>)
    /\ UNCHANGED <<pointCounter, assignedIds>>

removeTrackPoint(id) ==
    /\ Called(Call("removeTrackPoint", id, << >>, 0, FALSE))
    /\ Set(<< [trackPoints |-> RemovePoint(trackPoints, id),
               selectedPointId |-> SelectionAfterRemove(selectedPointId, id)] >>)
    /\ UNCHANGED <<pointCounter, assignedIds>>

\* createLoopAtPoint that also drops the selection when it builds the loop.
createLoopAtPointDeselects(id) ==
    /\ Called(Call("createLoopAtPoint", id, << >>, 0, FALSE))
    /\ LET pointIndex == FindIndex(trackPoints, id)
       IN  IF LoopAccepted(trackPoints, pointIndex)
           THEN /\ \E roundedBelow \in BOOLEAN :
                     Set(<< [trackPoints |->
                                LoopTrack(trackPoints, pointIndex,
                                          pointCounter, roundedBelow),
                             selectedPointId |-> NULL] >>)
                /\ pointCounter' = CounterAfter(pointCounter, LoopCount)
                /\ assignedIds' = assignedIds \cup
                       { PointId(CounterAfter(pointCounter, i)) : i \in 1..LoopCount }
           ELSE /\ Set(<< >>)
                /\ UNCHANGED <<pointCounter, assignedIds>>

\* The updater returns the state itself when the loop is rejected, and the
\* partial state { trackPoints } when it is built.
createLoopAtPoint(id) ==
    /\ Called(Call("createLoopAtPoint", id, << >>, 0, FALSE))
    /\ LET pointIndex == FindIndex(trackPoints, id)
       IN  IF LoopAccepted(trackPoints, pointIndex)
           THEN /\ \E roundedBelow \in BOOLEAN :
                     Set(<< [trackPoints |->
                                LoopTrack(trackPoints, pointIndex,
                                          pointCounter, roundedBelow)] >>)
                /\ pointCounter' = CounterAfter(pointCounter, LoopCount)
                /\ assignedIds' = assignedIds \cup
                       { PointId(CounterAfter(pointCounter, i)) : i \in 1..LoopCount }
           ELSE /\ Set(<< >>)
                /\ UNCHANGED <<pointCounter, assignedIds>>

selectPoint(id) ==
    /\ Called(Call("selectPoint", id, << >>, 0, FALSE))
    /\ Set(<< [selectedPointId |-> id] >>)
    /\ UNCHANGED <<pointCounter, assignedIds>>

\* clearTrack that forgets the selection.
clearTrackKeepsSelection ==
    /\ Called(Call("clearTrack", NULL, << >>, 0, FALSE))
    /\ Set(<< [trackPoints |-> << >>, rideProgress |-> 0,
               isRiding |-> FALSE] >>)
    /\ UNCHANGED <<pointCounter, assignedIds>>

clearTrack ==
    /\ Called(Call("clearTrack", NULL, << >>, 0, FALSE))
    /\ Set(<< [trackPoints |-> << >>, selectedPointId |-> NULL,
               rideProgress |-> 0, isRiding |-> FALSE] >>)
    /\ UNCHANGED <<pointCounter, assignedIds>>

setRideProgress(progress) ==
    /\ Called(Call("setRideProgress", NULL, << >>, progress, FALSE))
    /\ Set(<< [rideProgress |-> progress] >>)
    /\ UNCHANGED <<pointCounter, assignedIds>>

setIsRiding(riding) ==
    /\ Called(Call("setIsRiding", NULL, << >>, 0, riding))
    /\ Set(<< [isRiding |-> riding] >>)
    /\ UNCHANGED <<pointCounter, assignedIds>>

setRideSpeed(speed) ==
    /\ Called(Call("setRideSpeed", NULL, << >>, speed, FALSE))
    /\ Set(<< [rideSpeed |-> speed] >>)
    /\ UNCHANGED <<pointCounter, assignedIds>>

\* The guard off by one: a single point is enough.
RideAllowedFromOne(tp) == Len(tp) >= 1

\* if (trackPoints.length >= 2)
RideAllowed(tp) == Len(tp) >= 2

\* set() is called only when the ride is allowed.
startRide ==
    /\ Called(Call("startRide", NULL, << >>, 0, FALSE))
    /\ IF RideAllowed(trackPoints)
       THEN Set(<< [mode |-> "ride", isRiding |-> TRUE, rideProgress |-> 0] >>)
       ELSE Set(<< >>)
    /\ UNCHANGED <<pointCounter, assignedIds>>

\* stopRide that forgets rideProgress.
stopRideKeepsProgress ==
    /\ Called(Call("stopRide", NULL, << >>, 0, FALSE))
    /\ Set(<< [mode |-> "build", isRiding |-> FALSE] >>)
    /\ UNCHANGED <<pointCounter, assignedIds>>

stopRide ==
    /\ Called(Call("stopRide", NULL, << >>, 0, FALSE))
    /\ Set(<< [mode |-> "build", isRiding |-> FALSE, rideProgress |-> 0] >>)
    /\ UNCHANGED <<pointCounter, assignedIds>>

\* The raw setters of mode and isRiding.
RawSetters ==
    \/ \E m \in CoasterMode : setMode(m)
    \/ \E b \in BOOLEAN : setIsRiding(b)

\* selectPoint with any id, present or not, or null.
SelectAny == \E id \in CallerIds \cup {NULL} : selectPoint(id)

\* selectPoint with null or the id of a point that is in the track.
SelectPresent == \E id \in IdSet(trackPoints) \cup {NULL} : selectPoint(id)

\* Every other operation of the store.
OtherOps ==
    \/ \E t \in {<< >>} \cup { <<p>> : p \in Positions } : setCameraTarget(t)
    \/ \E b \in BOOLEAN : setIsDraggingPoint(b)
    \/ \E b \in BOOLEAN : setIsAddingPoints(b)
    \/ \E b \in BOOLEAN : setIsLooped(b)
    \/ \E b \in BOOLEAN : setHasChainLift(b)
    \/ \E b \in BOOLEAN : setShowWoodSupports(b)
    \/ \E b \in BOOLEAN : setIsNightMode(b)
    \/ \E p \in Positions : addTrackPoint(p)
    \/ \E id \in CallerIds, p \in Positions : updateTrackPoint(id, p)
    \/ \E id \in CallerIds, t \in Tilts : updateTrackPointTilt(id, t)
    \/ \E id \in CallerIds : removeTrackPoint(id)
    \/ \E id \in CallerIds : createLoopAtPoint(id)
    \/ clearTrack
    \/ \E x \in Progresses : setRideProgress(x)
    \/ \E x \in Speeds : setRideSpeed(x)
    \/ startRide
    \/ stopRide

Next ==
    \/ OtherOps
    \/ RawSetters
    \/ SelectAny

Spec == Init /\ [][Next]_vars

\* selectPoint is called only with null or with the id of a present point.
NextPresentSelect ==
    \/ OtherOps
    \/ RawSetters
    \/ SelectPresent

SpecPresentSelect == Init /\ [][NextPresentSelect]_vars

\* setMode and setIsRiding are not called.
NextNoRaw ==
    \/ OtherOps
    \/ SelectAny

SpecNoRaw == Init /\ [][NextNoRaw]_vars

\* The caller keeps one Vector3 object, passes it to addTrackPoint and
\* updateTrackPoint, and changes it between the calls.
NextAlias ==
    \/ addTrackPointHeld
    \/ \E id \in CallerIds : updateTrackPointHeld(id)
    \/ \E id \in CallerIds, t \in Tilts : updateTrackPointTilt(id, t)
    \/ \E v \in Positions : callerSetsVector(v)

SpecAlias == Init /\ [][NextAlias]_vars

\* Positions for the loop geometry: the three of Positions, one that differs
\* from (10, 0, 0) in height only, one that lies 0.05 from it, one that lies
\* exactly 0.1 from it, and one that lies 5 from it in the direction
\* (0.6, 0, 0.8).
LoopPositions ==
    Positions \cup { Vec(10 * Unit, 5 * Unit, 0),
                     Vec(10 * Unit + Unit \div 20, 0, 0),
                     Vec(10 * Unit + Unit \div 10, 0, 0),
                     Vec(13 * Unit, 0, 4 * Unit) }

\* Points are added and loops are built.
NextLoop ==
    \/ \E p \in LoopPositions : addTrackPoint(p)
    \/ \E id \in CallerIds : createLoopAtPoint(id)

SpecLoop == Init /\ [][NextLoop]_vars

\* Only addTrackPoint is called.
NextAdd == \E p \in Positions : addTrackPoint(p)

SpecAdd == Init /\ [][NextAdd]_vars

----------------------------------------------------------------------------
\* Properties.

\* The step is a call of the operation op.
Step(op) == opCount' = opCount + 1 /\ lastCall'.op = op

\* The ids of the track are pairwise distinct.
DistinctIds(tp) ==
    \A i, j \in 1..Len(tp) : tp[i].id = tp[j].id => i = j

\* C1: in every reachable state the ids of trackPoints are pairwise distinct,
\* and every id that enters the track in a step (the id of a point the step
\* created) was never given to a point before, also when that earlier point
\* was removed or the track was cleared in between.
C1_IdsUniqueNeverReused ==
    [][ /\ DistinctIds(trackPoints')
        /\ (IdSet(trackPoints') \ IdSet(trackPoints)) \cap assignedIds = {} ]_vars

\* A point was created after an earlier point had been removed.
C1_Witness ==
    /\ lastCall.op = "addTrackPoint"
    /\ Len(trackPoints) >= 1
    /\ assignedIds \ IdSet(trackPoints) # {}

\* C2: when only addTrackPoint is called, starting from the empty track, the
\* track is as long as the number of calls, its ids are pairwise distinct, and
\* each call leaves the earlier points as they were, in their order, and puts
\* behind them a point with tilt 0 and the position given.
C2_AddAppends ==
    [][ /\ Len(trackPoints') = opCount'
        /\ DistinctIds(trackPoints')
        /\ SubSeq(trackPoints', 1, Len(trackPoints)) = trackPoints
        /\ trackPoints'[Len(trackPoints')].tilt = 0
        /\ <<trackPoints'[Len(trackPoints')].position>> = lastCall'.vec ]_vars

\* Three points were added, the last at another position than the first.
C2_Witness ==
    /\ opCount = 3
    /\ Len(trackPoints) = 3
    /\ trackPoints[3].position # trackPoints[1].position

\* C3: createLoopAtPoint with an id that matches no point, or that matches the
\* last point of the track, changes no field of the store: the track (ids,
\* order, positions, tilts) and every other field are as before.
C3_LoopRejectedIsNoOp ==
    [][ ( /\ Step("createLoopAtPoint")
          /\ \/ lastCall'.str \notin IdSet(trackPoints)
             \/ /\ Len(trackPoints) >= 1
                /\ trackPoints[Len(trackPoints)].id = lastCall'.str )
        => UNCHANGED storeVars ]_vars

\* A loop was asked for at the last point of a track of two or more points.
C3_Witness ==
    /\ lastCall.op = "createLoopAtPoint"
    /\ Len(trackPoints) >= 2
    /\ trackPoints[Len(trackPoints)].id = lastCall.str

\* C4: createLoopAtPoint with the id of the point at a position j that is not
\* the last one gives a track of 7 more points: the old ids up to j in their
\* order, then 7 pairwise distinct ids the track did not hold, then the old
\* ids behind j in their order; every old point keeps its tilt and every
\* generated point has tilt 0.
C4_LoopSplices ==
    [][ \A j \in 1..(Len(trackPoints) - 1) :
          ( Step("createLoopAtPoint") /\ trackPoints[j].id = lastCall'.str )
          => /\ Len(trackPoints') = Len(trackPoints) + 7
             /\ \A i \in 1..j :
                   /\ trackPoints'[i].id = trackPoints[i].id
                   /\ trackPoints'[i].tilt = trackPoints[i].tilt
             /\ \A i \in (j + 1)..(j + 7) :
                   /\ trackPoints'[i].id \notin IdSet(trackPoints)
                   /\ trackPoints'[i].tilt = 0
                   /\ \A h \in (j + 1)..(j + 7) :
                         trackPoints'[h].id = trackPoints'[i].id => h = i
             /\ \A i \in (j + 1)..Len(trackPoints) :
                   /\ trackPoints'[i + 7].id = trackPoints[i].id
                   /\ trackPoints'[i + 7].tilt = trackPoints[i].tilt ]_vars

\* A loop was built at a point that is neither the first nor the last.
C4_Witness ==
    /\ lastCall.op = "createLoopAtPoint"
    /\ Len(trackPoints) >= 9
    /\ FindIndex(trackPoints, lastCall.str) >= 1
    /\ FindIndex(trackPoints, lastCall.str) + 8 < Len(trackPoints)

\* C5: startRide on a track of 0 or 1 points changes nothing of the store; on
\* a track of 2 or more points it sets mode to "ride", isRiding to TRUE and
\* rideProgress to 0, whatever they were.
C5_StartRide ==
    [][ Step("startRide")
        => IF Len(trackPoints) >= 2
           THEN mode' = "ride" /\ isRiding' = TRUE /\ rideProgress' = 0
           ELSE UNCHANGED storeVars ]_vars

\* startRide was called on a track of two points, as the fourth call.
C5_Witness ==
    /\ lastCall.op = "startRide"
    /\ Len(trackPoints) = 2
    /\ mode = "ride"
    /\ isRiding
    /\ opCount = 4

\* C6: in every reachable state, mode "ride" or isRiding TRUE means that the
\* track has at least 2 points.
C6_RideNeedsTwoPoints ==
    (mode = "ride" \/ isRiding) => Len(trackPoints) >= 2

\* C7: clearTrack, in any reachable state, gives an empty track, no selection,
\* rideProgress 0 and isRiding FALSE.
C7_ClearTrack ==
    [][ Step("clearTrack")
        => /\ trackPoints' = << >>
           /\ selectedPointId' = NULL
           /\ rideProgress' = 0
           /\ isRiding' = FALSE ]_vars

\* Two points were added, the mode became "ride", and the track was cleared.
C7_Witness ==
    /\ lastCall.op = "clearTrack"
    /\ opCount = 4
    /\ pointCounter = 2
    /\ mode = "ride"
    /\ trackPoints = << >>

\* C8: removeTrackPoint with an id that matches no point of the track changes
\* no field of the store, also when selectedPointId is that (stale) id.
C8_RemoveAbsentIsNoOp ==
    [][ ( Step("removeTrackPoint") /\ lastCall'.str \notin IdSet(trackPoints) )
        => UNCHANGED storeVars ]_vars

\* C9: removeTrackPoint with the id of a point of the track removes exactly
\* that point: the track is the old one without it, every other point keeping
\* its id, position, tilt and place in the order; the selection becomes null
\* if it was that id and is otherwise unchanged.
C9_RemovePresent ==
    [][ \A j \in 1..Len(trackPoints) :
          ( Step("removeTrackPoint") /\ trackPoints[j].id = lastCall'.str )
          => /\ trackPoints' = SubSeq(trackPoints, 1, j - 1)
                                 \o SubSeq(trackPoints, j + 1, Len(trackPoints))
             /\ selectedPointId' =
                   IF selectedPointId = lastCall'.str THEN NULL
                   ELSE selectedPointId ]_vars

\* The middle point of a track of three was removed.
C9_Witness ==
    /\ lastCall.op = "removeTrackPoint"
    /\ pointCounter = 3
    /\ Len(trackPoints) = 2
    /\ lastCall.str = PointId(2)
    /\ lastCall.str \notin IdSet(trackPoints)

\* C10: removeTrackPoint is idempotent: a second removeTrackPoint(id) right
\* after removeTrackPoint(id) leaves the store as the first call left it.
C10_RemoveIdempotent ==
    [][ ( Step("removeTrackPoint") /\ lastCall'.again ) => UNCHANGED storeVars ]_vars

\* One of the two points of a track was removed, and removed again.
C10_Witness ==
    /\ lastCall.op = "removeTrackPoint"
    /\ lastCall.again
    /\ lastCall.str \in assignedIds
    /\ pointCounter = 2
    /\ Len(trackPoints) = 1

\* C11: updateTrackPoint(id, p) with id present makes the position of that
\* point p and leaves its id and tilt, every other point, the order and the
\* length as they were; with id absent the track is unchanged.  The stored
\* position is a copy: when the caller changes its vector afterwards, no
\* stored position changes.
C11_UpdateStoresCopy ==
    [][ /\ Step("updateTrackPoint")
           => /\ Len(trackPoints') = Len(trackPoints)
              /\ \A i \in 1..Len(trackPoints) :
                    trackPoints'[i] =
                       IF trackPoints[i].id = lastCall'.str
                       THEN Point(trackPoints[i].id, lastCall'.vec[1],
                                  trackPoints[i].tilt)
                       ELSE trackPoints[i]
              /\ lastCall'.str \notin IdSet(trackPoints)
                    => trackPoints' = trackPoints
        /\ heldVec' # heldVec => trackPoints' = trackPoints ]_vars

\* A tilted point was given the caller's vector as its position, and the
\* caller changed the vector afterwards.
C11_Witness ==
    /\ lastCall.op = "updateTrackPoint"
    /\ heldVec # lastCall.vec[1]
    /\ \E i \in 1..Len(trackPoints) :
          /\ trackPoints[i].id = lastCall.str
          /\ trackPoints[i].position = lastCall.vec[1]
          /\ trackPoints[i].position # Vec(0, 0, 0)
          /\ trackPoints[i].tilt = 1

\* C12: stopRide, in any reachable state, gives mode "build", isRiding FALSE
\* and rideProgress 0 and leaves trackPoints and selectedPointId as they were.
C12_StopRide ==
    [][ Step("stopRide")
        => /\ mode' = "build"
           /\ isRiding' = FALSE
           /\ rideProgress' = 0
           /\ UNCHANGED <<trackPoints, selectedPointId>> ]_vars

\* stopRide was the fourth call, on a track of two points.
C12_Witness ==
    /\ lastCall.op = "stopRide"
    /\ opCount = 4
    /\ Len(trackPoints) = 2
    /\ mode = "build"

\* C18: when selectPoint is called only with null or with the id of a point
\* that is in the track at that moment, selectedPointId is in every reachable
\* state null or the id of a point of the track.
C18_SelectionPresent ==
    selectedPointId = NULL \/ selectedPointId \in IdSet(trackPoints)

\* A point was removed while another point was selected.
C18_Witness ==
    /\ lastCall.op = "removeTrackPoint"
    /\ lastCall.str \in assignedIds
    /\ lastCall.str \notin IdSet(trackPoints)
    /\ selectedPointId \in IdSet(trackPoints)

\* C19: when setMode and setIsRiding are not called, isRiding is TRUE in
\* every reachable state exactly when mode is "ride".
C19_RidingIffRideMode ==
    isRiding <=> (mode = "ride")

\* C20: createLoopAtPoint, accepted or rejected, changes no field of the
\* store other than trackPoints.
C20_LoopFrame ==
    [][ Step("createLoopAtPoint") => UNCHANGED otherVars ]_vars

\* A loop was built during a ride.
C20_Witness ==
    /\ lastCall.op = "createLoopAtPoint"
    /\ Len(trackPoints) >= 9
    /\ pointCounter = 9
    /\ isRiding
    /\ mode = "ride"

\* The step builds a loop at the point at the 1-based place j.
LoopBuiltAt(j) ==
    /\ Step("createLoopAtPoint")
    /\ j < Len(trackPoints)
    /\ trackPoints[j].id = lastCall'.str

\* The vector a moved by n times the unit vector l (l counted in 1/Unit),
\* in the horizontal plane.
MovedAlong(a, l, n) == Vec(a.x + n * l.x, a.y, a.z + n * l.z)

\* C13: when createLoopAtPoint builds a loop at index k, every point at index
\* 0..k is moved by +10 along the horizontal unit vector left and every point
\* behind k by -10 along left; the height of every old point is unchanged.
\* All points of the track are moved, not only those next to the target.
C13_LateralShift ==
    [][ \A j \in 1..(Len(trackPoints) - 1) :
          LoopBuiltAt(j)
          => \E roundedBelow \in BOOLEAN :
             LET left == Left(Forward(trackPoints, j - 1, roundedBelow))
             IN  /\ left.y = 0
                 /\ Length(left) \in (Unit - 1)..(Unit + 1)
                 /\ \A i \in 1..j :
                       trackPoints'[i].position =
                          MovedAlong(trackPoints[i].position, left, 10)
                 /\ \A i \in (j + 1)..Len(trackPoints) :
                       trackPoints'[i + 7].position =
                          MovedAlong(trackPoints[i].position, left, -10) ]_vars

\* A loop was built at the second of three points, and the first point moved
\* in x and in z: left is not along an axis.
C13_Witness ==
    /\ lastCall.op = "createLoopAtPoint"
    /\ Len(trackPoints) = 10
    /\ trackPoints[2].id = lastCall.str
    /\ trackPoints[1].position.x \notin {p.x : p \in LoopPositions}
    /\ trackPoints[1].position.z \notin {p.z : p \in LoopPositions}

\* How far p lies from c along l, in the horizontal plane.
LateralOf(p, c, l) == (p.x - c.x) * l.x + (p.z - c.z) * l.z

\* C14: the loop is entered on the left and left on the right: the first
\* generated point lies on the positive side of the loop centre along left,
\* and the last generated point on the negative side.
C14_EntryLeftExitRight ==
    [][ \A j \in 1..(Len(trackPoints) - 1) :
          LoopBuiltAt(j)
          => LET left   == Vec((trackPoints'[j].position.x
                                  - trackPoints[j].position.x) \div 10,
                               0,
                               (trackPoints'[j].position.z
                                  - trackPoints[j].position.z) \div 10)
                 center == LoopCenter(trackPoints'[j].position,
                                      trackPoints'[j + 8].position)
             IN  /\ LateralOf(trackPoints'[j + 1].position, center, left) > 0
                 /\ LateralOf(trackPoints'[j + 7].position, center, left) < 0 ]_vars

\* C15: every operation commits its change in one update: the subscribers
\* are told at most once during an operation, every state they are told of is
\* the complete state after the operation, and a change of the store is never
\* left untold.  So no state is observable in which createLoopAtPoint has moved
\* the old points but not inserted the loop, or in which removeTrackPoint has
\* removed the point but not cleared the selection that names it.
C15_SingleUpdate ==
    [][ opCount' = opCount + 1
          => /\ Len(notified') <= 1
             /\ \A i \in 1..Len(notified') : notified'[i] = Snapshot'
             /\ Snapshot' # Snapshot => Len(notified') = 1 ]_vars

\* A loop was built and one of the nine points was then removed: the
\* subscribers were told once of the removal, of the state without that point.
C15_Witness ==
    /\ lastCall.op = "removeTrackPoint"
    /\ pointCounter = 9
    /\ Len(trackPoints) = 8
    /\ lastCall.str \in assignedIds
    /\ Len(notified) = 1
    /\ notified[1] = Snapshot
    /\ lastCall.str \notin IdSet(notified[1].trackPoints)

\* C16: when the target is the first point, or the horizontal distance from
\* the point before it is below 0.1 (also when that point differs in height
\* only), forward is the +x axis and left is (0, 0, -1): the points up to the
\* target move by -10 in z, the points behind it by +10 in z, and no x of an
\* old point changes.  Otherwise forward is the normalised horizontal vector
\* from the point before the target to the target, and left is up x forward.
\* The distance is the one between the stored doubles: where the decimal
\* coordinates are exactly 0.1 apart, it lies on either side of 0.1 (the
\* double 10.1 is 0.09999999999999964 from 10), and the step is the one or the
\* other of the two cases.
C16_ForwardFallback ==
    [][ \A j \in 1..(Len(trackPoints) - 1) :
          LoopBuiltAt(j)
          => LET d == IF j = 1 THEN Vec(0, 0, 0)
                      ELSE Sub(trackPoints[j].position,
                               trackPoints[j - 1].position)
                 h == Vec(d.x, 0, d.z)
                 sq == h.x * h.x + h.z * h.z
                 limit == (Unit \div 10) * (Unit \div 10)
                 MovedBy(left) ==
                     /\ \A i \in 1..j :
                           trackPoints'[i].position =
                              MovedAlong(trackPoints[i].position, left, 10)
                     /\ \A i \in (j + 1)..Len(trackPoints) :
                           trackPoints'[i + 7].position =
                              MovedAlong(trackPoints[i].position, left, -10)
                 fallback == MovedBy(Vec(0, 0, -Unit))
                 along == MovedBy(Normalize(CrossVectors(Vec(0, Unit, 0),
                                                         Normalize(h))))
             IN  /\ (j = 1 \/ sq < limit) => fallback
                 /\ (j > 1 /\ sq > limit) => along
                 /\ (j > 1 /\ sq = limit) => (fallback \/ along) ]_vars

\* A loop was built at a point whose predecessor differs from it in height
\* only: both moved by -10 in z and kept their x.
C16_Witness ==
    /\ lastCall.op = "createLoopAtPoint"
    /\ Len(trackPoints) = 10
    /\ trackPoints[2].id = lastCall.str
    /\ trackPoints[1].position = Vec(10 * Unit, 0, -10 * Unit)
    /\ trackPoints[2].position = Vec(10 * Unit, 5 * Unit, -10 * Unit)

\* C17: the i-th generated point (i = 1..7) lies at the loop centre plus
\* cos(2 pi i / 8) * 8 along left and sin(2 pi i / 8) * 8 upwards, the centre
\* being the horizontal midpoint of the entry anchor (the moved target) and
\* the exit anchor (the moved successor) at the entry height plus 8.  For the
\* track (0,0,0), (10,0,0), (20,0,0) looped at the middle point the track has
\* 10 points, the centre is (15, 8, 0), and the generated points 2, 4 and 6
\* are (15, 16, 0), (15, 8, 8) and (15, 0, 0).
C17_LoopPoints ==
    [][ \A j \in 1..(Len(trackPoints) - 1) :
          LoopBuiltAt(j)
          => LET entry  == trackPoints'[j].position
                 exit   == trackPoints'[j + 8].position
                 center == Vec(RoundDiv(entry.x + exit.x, 2),
                               entry.y + 8 * Unit,
                               RoundDiv(entry.z + exit.z, 2))
                 left   == Vec((entry.x - trackPoints[j].position.x) \div 10,
                               0,
                               (entry.z - trackPoints[j].position.z) \div 10)
                 cos8(i) == RoundDiv(Cos8(i) * 8, 1000000 \div Unit)
                 sin8(i) == RoundDiv(Sin8(i) * 8, 1000000 \div Unit)
             IN  /\ \A i \in 1..7 :
                       trackPoints'[j + i].position =
                          Vec(center.x + RoundDiv(left.x * cos8(i), Unit),
                              center.y + sin8(i),
                              center.z + RoundDiv(left.z * cos8(i), Unit))
                 /\ ( /\ j = 2
                      /\ Len(trackPoints) = 3
                      /\ trackPoints[1].position = Vec(0, 0, 0)
                      /\ trackPoints[2].position = Vec(10 * Unit, 0, 0)
                      /\ trackPoints[3].position = Vec(20 * Unit, 0, 0) )
                    => /\ Len(trackPoints') = 10
                       /\ center = Vec(15 * Unit, 8 * Unit, 0)
                       /\ trackPoints'[4].position = Vec(15 * Unit, 16 * Unit, 0)
                       /\ trackPoints'[6].position =
                             Vec(15 * Unit, 8 * Unit, 8 * Unit)
                       /\ trackPoints'[8].position = Vec(15 * Unit, 0, 0) ]_vars

\* The track (0,0,0), (10,0,0), (20,0,0) was looped at its middle point.
C17_Witness ==
    /\ lastCall.op = "createLoopAtPoint"
    /\ Len(trackPoints) = 10
    /\ trackPoints[2].id = lastCall.str
    /\ trackPoints[1].position = Vec(0, 0, -10 * Unit)
    /\ trackPoints[2].position = Vec(10 * Unit, 0, -10 * Unit)
    /\ trackPoints[10].position = Vec(20 * Unit, 0, 10 * Unit)

====
